---- MODULE Spec2Model ----
(***************************************************************************)
(* State-machine model of the flock-control counting application.          *)
(*                                                                         *)
(*   Spec       the client store of client/src/lib/store.ts (useAppStore): *)
(*              counts, pendingUploads, isOnline, isSyncing and the sync   *)
(*              passes with their analyze requests in flight.              *)
(*   SpecConn   the client store with the health-gated connection state    *)
(*              (useCountStore with connection.isOnline and                *)
(*              connection.isDatabaseConnected): setOnline probes          *)
(*              /api/health, failed uploads get their retryCount raised.   *)
(*   SpecServer the authenticated POST /api/analyze requests of the server:*)
(*              storage.addCount followed by checkAchievements, whose      *)
(*              database calls interleave between concurrent requests.     *)
(*   SpecDelete DELETE /api/counts on any counts table.                    *)
(*   SpecView   the merged list of the CountHistory component, for any     *)
(*              local and server list.                                     *)
(*   SpecQueue  Spec with the store's clearCounts action.                  *)
(*   SpecDev    Spec with the Online/Offline button of the DevTools panel. *)
(*   SpecHome   the home page's analyzeMutation over guest, offline and    *)
(*              online captures, with login, logout and the history list.  *)
(*   SpecTimed  the useAppStore whose setOnline probes /api/health under a *)
(*              timer of HEALTH_CHECK_TIMEOUT; the timer is weakly fair.   *)
(*   SpecLife   Spec with the persist middleware: asynchronous writes to   *)
(*              IndexedDB and page reloads.                                *)
(*   SpecRecords the record operations of the store: addCount,             *)
(*              updateCount, deleteCounts, importCounts, clearCounts.      *)
(*   SpecLog    the count log of the server: analyze with and without a    *)
(*              session, GET and DELETE /api/counts, one after another.    *)
(*   SpecSeed   initializeAchievements on a new database.                  *)
(*   SpecFair   Spec with requests and passes that always complete.        *)
(*   SpecReload the useCountStore that persists isSyncing, with reloads.   *)
(***************************************************************************)
EXTENDS Integers, Sequences, FiniteSets, TLC

(* ------------------------------ bounds ---------------------------------- *)
\* images queued over a run (crypto.randomUUID() yields the ids 1..MaxUploads)
MaxUploads == 3
\* sync passes started over a run
MaxPasses == 2
\* addCount calls made by callers other than the sync engine over a run
MaxDirect == 1
\* /api/health probes started over a run
MaxProbes == 2
\* authenticated /api/analyze requests received over a run
MaxRequests == 2
\* images queued over a run of useCountStore
MaxConnUploads == 2
\* images captured on the home page over a run
MaxImages == 3
\* rows of the counts table a DELETE /api/counts request meets
MaxRows == 3
\* lengths of the local and of the server list CountHistory merges
MaxLocal == 2
MaxServer == 2
\* records in the store's list when its record operations are exercised
MaxRecords == 2
\* calls of initializeAchievements over a run (one per start of a server
\* process on the database)
MaxCalls == 4
\* analyze and delete requests the server handles one after another over a run
MaxLogOps == 3
\* the largest count id a DELETE /api/counts request names
MaxDeleteIds == 2

VARIABLES
    counts,          \* store.counts: the record list, most recent first
    pendingUploads,  \* store.pendingUploads: the queue, oldest first
    isOnline,        \* store.isOnline
    isSyncing,       \* store.isSyncing
    passes,          \* the running syncPendingUploads calls (past their guard)
    nPasses,         \* passes started so far
    nextUploadId,    \* next value of crypto.randomUUID()
    nDirect,         \* addCount calls made by other callers so far
    lastOp,          \* the store operation that produced the current state
    connection,      \* useCountStore: {isOnline, isDatabaseConnected, lastError}
    probes,          \* useCountStore: /api/health requests in flight
    nProbes,         \* useCountStore: probes started so far
    dbCounts,            \* server: the counts table
    dbUserAchievements,  \* server: user_achievements, rows per (userId, achievementId)
    dbAchievements,      \* server: the achievements table
    requests,            \* server: the /api/analyze requests that stored a count
    today,               \* server: the calendar day of new Date()
    settled,             \* per user: a check returned and the user's rows are as it saw them
    serverCounts,        \* CountHistory: the counts prop (the GET /api/counts result)
    allCounts,           \* CountHistory: the merged list that is rendered
    user,                \* Home: the id of the logged-in user, 0 for a guest
    mutation,            \* Home: the running analyzeMutation
    nImages,             \* Home: images captured so far
    forcedOffline,       \* DevTools: the Online/Offline button was last used to go offline
    persisted            \* IndexedDB: the value stored under STORAGE_KEY

\* the state only useAppStore has, and the state only useCountStore has
appOnly == <<isOnline>>
connOnly == <<connection, probes, nProbes>>

serverVars == <<dbCounts, dbUserAchievements, dbAchievements, requests, today,
                settled>>
viewVars == <<serverCounts, allCounts>>
pageVars == <<user, mutation, nImages, forcedOffline, persisted>>
storeVars == <<counts, pendingUploads, isOnline, isSyncing, passes, nPasses,
               nextUploadId, nDirect, connection, probes, nProbes>>

vars == <<storeVars, lastOp, serverVars, viewVars, pageVars>>

Images == {"img"}

\* what one analyze request of a pass can come back with
\*   ok       2xx, body carries a count record
\*   nocount  2xx, body carries no count record
\*   neterr   fetch rejects (apiRequest rethrows)
\*   http5xx  non-2xx status (throwIfResNotOk throws)
Outcomes == {"ok", "nocount", "neterr", "http5xx"}

Range(s) == {s[i] : i \in 1..Len(s)}

Ids(s) == {s[i].id : i \in 1..Len(s)}

\* the count record the server answers for the upload u in pass p
RecordOf(p, u) == [src |-> "sync", pass |-> p, upload |-> u.id]

DirectRecord(n) == [src |-> "direct", pass |-> 0, upload |-> n]

(* ------------------------- store operations ----------------------------- *)

\* addCount: set((state) => ({counts: [count, ...state.counts]}))
addCount(count) == <<count>> \o counts

\* queueForUpload: appends {id: randomUUID(), image, timestamp, retryCount: 0}
queueForUpload(image) ==
    Append(pendingUploads, [id |-> nextUploadId, image |-> image, retryCount |-> 0])

\* a lost update: filters the queue of the snapshot taken before the await
removePendingUploadStale(id) ==
    SelectSeq(passes[Len(passes)].snapshot, LAMBDA u : u.id # id)

\* a removal that gives up on everything queued before the item as well
removePendingUploadAndOlder(id) == SelectSeq(pendingUploads, LAMBDA u : u.id > id)

\* removePendingUpload: set((state) => ({pendingUploads: state.pendingUploads.filter(...)}))
removePendingUpload(id) == SelectSeq(pendingUploads, LAMBDA u : u.id # id)

\* the guard of syncPendingUploads without its isSyncing test
SyncGuardNoFlag(online) == online /\ Len(pendingUploads) # 0

\* the guard of syncPendingUploads: the negation of the early return
SyncGuard(online) == online /\ Len(pendingUploads) # 0 /\ ~isSyncing

NoPass == [n |-> 0, snapshot |-> <<>>, res |-> <<>>, enqueued |-> {}, added |-> {}]

Op(name, arg) == [op |-> name, arg |-> arg, pass |-> NoPass]

\* a pass start that maps over the queue twice
SyncStartTwice ==
    /\ nPasses < MaxPasses
    /\ nPasses' = nPasses + 1
    /\ isSyncing' = TRUE
    /\ passes' = Append(passes,
           [n |-> nPasses + 1,
            snapshot |-> pendingUploads \o pendingUploads,
            res |-> [i \in 1..(2 * Len(pendingUploads)) |-> "inflight"],
            enqueued |-> {},
            added |-> {}])
    /\ UNCHANGED <<counts, pendingUploads>>

\* the body of syncPendingUploads up to its first await: const state = get(),
\* set({isSyncing: true}), and one apiRequest per item of state.pendingUploads
SyncStart ==
    /\ nPasses < MaxPasses
    /\ nPasses' = nPasses + 1
    /\ isSyncing' = TRUE
    /\ passes' = Append(passes,
           [n |-> nPasses + 1,
            snapshot |-> pendingUploads,
            res |-> [i \in 1..Len(pendingUploads) |-> "inflight"],
            enqueued |-> {},
            added |-> {}])
    /\ UNCHANGED <<counts, pendingUploads>>

\* syncPendingUploads, called with the store's isOnline being `online`
SyncCall(online, who) ==
    IF SyncGuard(online)
    THEN /\ SyncStart
         /\ lastOp' = Op("syncStarted", who)
    ELSE /\ UNCHANGED <<counts, pendingUploads, isSyncing, passes, nPasses>>
         /\ lastOp' = Op("syncReturned", who)

(* ------------------------------ server ---------------------------------- *)

\* registered users (users.id); 0 is the userId of a request without a session
Users == {1, 2}

\* result.count values of the vision model: below and above the single_count
\* requirements
AnalyzedCounts == {3, 120}

Breeds == {"Leghorn"}

\* the calendar days new Date() falls on during a run
Days == {1, 2}

\* INITIAL_ACHIEVEMENTS, in the order of insertion (serial ids 1..10)
INITIAL_ACHIEVEMENTS == <<
    [name |-> "Novice Counter",      requirement |-> 1,   type |-> "total_counts"],
    [name |-> "Experienced Counter", requirement |-> 10,  type |-> "total_counts"],
    [name |-> "Master Counter",      requirement |-> 50,  type |-> "total_counts"],
    [name |-> "Elite Counter",       requirement |-> 100, type |-> "total_counts"],
    [name |-> "Breed Expert",        requirement |-> 5,   type |-> "unique_breeds"],
    [name |-> "Breed Master",        requirement |-> 10,  type |-> "unique_breeds"],
    [name |-> "Flock Master",        requirement |-> 100, type |-> "single_count"],
    [name |-> "Mega Flock",          requirement |-> 500, type |-> "single_count"],
    [name |-> "Daily Counter",       requirement |-> 5,   type |-> "unique_days"],
    [name |-> "Weekly Counter",      requirement |-> 7,   type |-> "consecutive_days"] >>

\* the achievements table after db.insert(achievements).values(INITIAL_ACHIEVEMENTS)
SeededAchievements ==
    [i \in DOMAIN INITIAL_ACHIEVEMENTS |->
        [id |-> i,
         name |-> INITIAL_ACHIEVEMENTS[i].name,
         requirement |-> INITIAL_ACHIEVEMENTS[i].requirement,
         type |-> INITIAL_ACHIEVEMENTS[i].type]]

StatNames == {"totalCounts", "uniqueBreeds", "maxSingleCount", "uniqueDays",
              "consecutiveDays"}

Unread == -1

SetMax(S) == IF S = {} THEN 0 ELSE CHOOSE x \in S : \A y \in S : y <= x

RowsOf(rows, userId) == {row \in rows : row.userId = userId}

\* the longest run of consecutive days in the set of days D
LongestRun(D) ==
    SetMax({n \in 1..Cardinality(D) :
               \E d \in D : \A k \in 0..(n - 1) : (d + k) \in D})

\* the five aggregate queries of checkAchievements, each as Number(x || 0),
\* answered on the counts table `rows`
StatValueIn(rows, name, userId) ==
    CASE name = "totalCounts" -> Cardinality(RowsOf(rows, userId))
      [] name = "uniqueBreeds" -> Cardinality({row.breed : row \in RowsOf(rows, userId)})
      [] name = "maxSingleCount" -> SetMax({row.count : row \in RowsOf(rows, userId)})
      [] name = "uniqueDays" -> Cardinality({row.day : row \in RowsOf(rows, userId)})
      [] name = "consecutiveDays" -> LongestRun({row.day : row \in RowsOf(rows, userId)})

StatValue(name, userId) == StatValueIn(dbCounts, name, userId)

\* the switch on achievement.type
StatOfType(type) ==
    CASE type = "total_counts" -> "totalCounts"
      [] type = "unique_breeds" -> "uniqueBreeds"
      [] type = "single_count" -> "maxSingleCount"
      [] type = "unique_days" -> "uniqueDays"
      [] type = "consecutive_days" -> "consecutiveDays"

\* earned = stats.<statistic> >= achievement.requirement
Earned(stats, achievement) == stats[StatOfType(achievement.type)] >= achievement.requirement

\* a check that forgets the already-earned set
achievedIdsHasNever(achievedIds, id) == FALSE

\* achievedIds.has(achievement.id)
achievedIdsHas(achievedIds, id) == id \in achievedIds

\* a delete that is not scoped to the caller
deleteCountsAnyOwner(userId, countIds) ==
    {row \in dbCounts : ~(row.id \in countIds)}

\* storage.deleteCounts: delete from counts where user_id = userId and id in countIds
deleteCounts(userId, countIds) ==
    {row \in dbCounts : ~(row.userId = userId /\ row.id \in countIds)}

\* the server after start-up: the seed achievements, no counts, no grants
ServerInit ==
    /\ dbCounts = {}
    /\ dbUserAchievements = [g \in Users \X DOMAIN SeededAchievements |-> 0]
    /\ dbAchievements = SeededAchievements
    /\ requests = <<>>
    /\ today = 1
    /\ settled = [u \in Users |-> FALSE]

\* useCountStore's initial connection: {isOnline: true, isDatabaseConnected: true}
InitialConnection ==
    [isOnline |-> TRUE, isDatabaseConnected |-> TRUE, lastError |-> "undefined"]

\* the store apart from its record list
QueueInit ==
    /\ pendingUploads = <<>>
    /\ isOnline = TRUE
    /\ isSyncing = FALSE
    /\ passes = <<>>
    /\ nPasses = 0
    /\ nextUploadId = 1
    /\ nDirect = 0
    /\ lastOp = Op("init", "init")
    /\ connection = InitialConnection
    /\ probes = 0
    /\ nProbes = 0

StoreInit ==
    /\ counts = <<>>
    /\ QueueInit

\* no rendering yet
ViewInit ==
    /\ serverCounts = <<>>
    /\ allCounts = <<>>

\* the home page before anyone logged in or captured an image
NoMutation == [images |-> <<>>, res |-> <<>>, user |-> 0, connection |-> InitialConnection]

\* what hydration finds when nothing was ever stored under STORAGE_KEY: the
\* store keeps its initial state
NoBlob == [counts |-> <<>>, pendingUploads |-> <<>>, isOnline |-> TRUE, isSyncing |-> FALSE]

PageInit ==
    /\ user = 0
    /\ mutation = NoMutation
    /\ nImages = 0
    /\ forcedOffline = FALSE
    /\ persisted = NoBlob

Init == StoreInit /\ ServerInit /\ ViewInit /\ PageInit

\* a caller other than the sync engine adds a record (home page, immediate analyze)
AddCount ==
    /\ nDirect < MaxDirect
    /\ nDirect' = nDirect + 1
    /\ counts' = addCount(DirectRecord(nDirect + 1))
    /\ passes' = [p \in 1..Len(passes) |->
                     [passes[p] EXCEPT !.added = @ \union {nDirect + 1}]]
    /\ lastOp' = Op("addCount", "caller")
    /\ UNCHANGED <<pendingUploads, isSyncing, nPasses, nextUploadId>>
    /\ UNCHANGED <<appOnly, connOnly>>
    /\ UNCHANGED <<serverVars, viewVars, pageVars>>

QueueForUpload ==
    /\ nextUploadId <= MaxUploads
    /\ \E image \in Images :
          pendingUploads' = queueForUpload(image)
    /\ nextUploadId' = nextUploadId + 1
    /\ passes' = [p \in 1..Len(passes) |->
                     [passes[p] EXCEPT !.enqueued = @ \union {nextUploadId}]]
    /\ lastOp' = Op("queueForUpload", "caller")
    /\ UNCHANGED <<counts, isSyncing, nPasses, nDirect>>
    /\ UNCHANGED <<appOnly, connOnly>>
    /\ UNCHANGED <<serverVars, viewVars, pageVars>>

\* setOnline(status): set({isOnline: status}); if (status) get().syncPendingUploads()
SetOnline(status) ==
    /\ isOnline' = status
    /\ IF status
       THEN SyncCall(TRUE, "setOnline")
       ELSE /\ UNCHANGED <<counts, pendingUploads, isSyncing, passes, nPasses>>
            /\ lastOp' = Op("setOffline", "caller")
    /\ UNCHANGED <<nextUploadId, nDirect>>
    /\ UNCHANGED connOnly
    /\ UNCHANGED <<serverVars, viewVars, pageVars>>

\* a direct call of the store's syncPendingUploads action
SyncPendingUploads ==
    /\ SyncCall(isOnline, "caller")
    /\ UNCHANGED <<isOnline, nextUploadId, nDirect>>
    /\ UNCHANGED connOnly
    /\ UNCHANGED <<serverVars, viewVars, pageVars>>

\* a mapped function without its catch: a thrown request error rejects
ItemSettlesUncaught(o) ==
    CASE o = "ok" -> "success"
      [] o = "nocount" -> "failure"
      [] OTHER -> "rejected"

\* what the promise of the mapped async function settles with: {success: true}
\* for a body with a count, {success: false} for a body without one and, from
\* the catch, for whatever the request or response.json() threw
ItemSettles(o) ==
    CASE o = "ok" -> "success"
      [] o = "nocount" -> "failure"
      [] OTHER -> "failure"

\* the analyze request of item i of the running pass p completes with outcome
\* o; the rest of the mapped async function runs (store.ts lines 107-118)
Complete(p, i, o) ==
    /\ p \in 1..Len(passes)
    /\ i \in DOMAIN passes[p].res
    /\ passes[p].res[i] = "inflight"
    /\ passes' = [passes EXCEPT ![p].res[i] = ItemSettles(o)]
    /\ LET upload == passes[p].snapshot[i] IN
       IF o = "ok"
       THEN /\ counts' = addCount(RecordOf(passes[p].n, upload))
            /\ pendingUploads' = removePendingUpload(upload.id)
       ELSE UNCHANGED <<counts, pendingUploads>>
    /\ lastOp' = Op("complete", o)
    /\ UNCHANGED <<isOnline, isSyncing, nPasses, nextUploadId, nDirect>>
    /\ UNCHANGED connOnly
    /\ UNCHANGED <<serverVars, viewVars, pageVars>>

\* Promise.all resolved: the finally block runs set({isSyncing: false})
FinishPass(p) ==
    /\ p \in 1..Len(passes)
    /\ \A i \in DOMAIN passes[p].res : passes[p].res[i] # "inflight"
    /\ passes' = [q \in 1..(Len(passes) - 1) |-> IF q < p THEN passes[q] ELSE passes[q + 1]]
    /\ isSyncing' = FALSE
    /\ lastOp' = [op |-> "finishPass", arg |-> "sync", pass |-> passes[p]]
    /\ UNCHANGED <<counts, pendingUploads, nPasses, nextUploadId, nDirect>>
    /\ UNCHANGED <<appOnly, connOnly>>
    /\ UNCHANGED <<serverVars, viewVars, pageVars>>

Next ==
    \/ AddCount
    \/ QueueForUpload
    \/ \E status \in BOOLEAN : SetOnline(status)
    \/ SyncPendingUploads
    \/ \E p \in 1..MaxPasses, i \in 1..MaxUploads, o \in Outcomes : Complete(p, i, o)
    \/ \E p \in 1..MaxPasses : FinishPass(p)

Spec == Init /\ [][Next]_vars

(* ------------------ claims about the store of store.ts ------------------ *)

Succeeded(pass) == {i \in DOMAIN pass.res : pass.res[i] = "success"}

Failed(pass) == {i \in DOMAIN pass.res : pass.res[i] = "failure"}

\* the state right after the finally block of a pass
PassJustFinished == lastOp.op = "finishPass"

\* C1 (as claimed): after N queueForUpload calls and one pass in which K
\* requests succeed, with nothing enqueued meanwhile, the queue holds exactly
\* the N-K failed items and each of them has its retryCount incremented by at
\* least 1 compared with the snapshot.
C1_QueueConservation ==
    (PassJustFinished /\ lastOp.pass.enqueued = {}) =>
        LET pass == lastOp.pass IN
        /\ Len(pendingUploads) = Len(pass.snapshot) - Cardinality(Succeeded(pass))
        /\ \A i \in Failed(pass) :
              \E j \in DOMAIN pendingUploads :
                 /\ pendingUploads[j].id = pass.snapshot[i].id
                 /\ pendingUploads[j].retryCount >= pass.snapshot[i].retryCount + 1

\* C2: at the end of a pass, whatever the completion order and whatever
\* queueForUpload and addCount calls ran in between, the record list holds the
\* records it held before plus one per succeeded item plus every interleaved
\* addCount, and the queue holds exactly the snapshot items that did not
\* succeed plus every item enqueued during the pass.
C2_NoLostUpdates ==
    PassJustFinished =>
        LET pass == lastOp.pass
            kept == {pass.snapshot[i].id : i \in Failed(pass)}
            new  == {RecordOf(pass.n, pass.snapshot[i]) : i \in Succeeded(pass)}
                       \union {DirectRecord(n) : n \in pass.added}
        IN /\ Ids(pendingUploads) = kept \union pass.enqueued
           /\ Len(pendingUploads) = Cardinality(kept \union pass.enqueued)
           /\ new \subseteq Range(counts)
           /\ {DirectRecord(n) : n \in 1..nDirect} \subseteq Range(counts)
           /\ Len(counts) = Cardinality(Range(counts))

\* C2 witness: a pass of at least two items, one succeeded and one failed, with
\* a queueForUpload and an addCount interleaved, has just finished.
C2_Witness ==
    /\ PassJustFinished
    /\ Succeeded(lastOp.pass) # {}
    /\ Failed(lastOp.pass) # {}
    /\ lastOp.pass.enqueued # {}
    /\ lastOp.pass.added # {}

IsSyncCall(op) == op \in {"syncStarted", "syncReturned"}

C3_Step ==
    /\ (isSyncing /\ IsSyncCall(lastOp'.op)) =>
          /\ lastOp'.op = "syncReturned"
          /\ UNCHANGED <<counts, pendingUploads, isSyncing, passes, nPasses>>
    /\ (passes' # passes /\ Len(passes') > Len(passes)) =>
          /\ lastOp'.op = "syncStarted"
          /\ ~isSyncing
    /\ nPasses' # nPasses => lastOp'.op = "syncStarted"

\* C3: at most one pass is in progress at any time; a syncPendingUploads call
\* made while isSyncing is true issues no analyze request and leaves the store
\* unchanged, and a pass only ever starts as the immediate effect of a call
\* that found isSyncing false (a dropped trigger starts no pass later).
C3_NonReentrant == [](Len(passes) <= 1) /\ [][C3_Step]_vars

\* C3 witness: a call was dropped only because a pass was in progress.
C3_Witness ==
    /\ lastOp.op = "syncReturned"
    /\ isSyncing
    /\ isOnline
    /\ Len(pendingUploads) # 0

\* the analyze requests in flight
InFlight(ps) ==
    {<<p, i>> \in (DOMAIN ps) \X (1..(2 * MaxUploads)) :
        i \in DOMAIN ps[p].res /\ ps[p].res[i] = "inflight"}

C19_Step ==
    /\ (lastOp'.arg = "setOnline" /\ Len(pendingUploads) # 0 /\ ~isSyncing) =>
          /\ lastOp'.op = "syncStarted"
          /\ Len(passes') = Len(passes) + 1
          /\ LET pass == passes'[Len(passes')] IN
                /\ pass.snapshot = pendingUploads
                /\ DOMAIN pass.res = DOMAIN pendingUploads
                /\ \A i \in DOMAIN pass.res : pass.res[i] = "inflight"
                /\ \A i, j \in DOMAIN pass.snapshot :
                      pass.snapshot[i].id = pass.snapshot[j].id => i = j
    /\ (~isOnline' \/ Len(pendingUploads) = 0) =>
          /\ Len(passes') <= Len(passes)
          /\ nPasses' = nPasses
          /\ InFlight(passes') \subseteq InFlight(passes)

\* C19: setOnline(true) with a non-empty queue and no pass in progress starts a
\* pass that sends one analyze request for each queued item; while the store
\* is offline or the queue is empty no pass starts and no analyze request is
\* sent by syncPendingUploads.
C19_OnlineStartsPass == [][C19_Step]_vars

\* setOnline(true) has started a pass over a queue of two items
C19_Witness ==
    /\ lastOp.op = "syncStarted"
    /\ lastOp.arg = "setOnline"
    /\ Len(passes) > 0
    /\ Len(passes[Len(passes)].snapshot) >= 2

AllIn(pass) == \A i \in DOMAIN pass.res : pass.res[i] # "inflight"

\* C12: whatever the requests of a pass come back with, none of them rejects
\* the pass; once every request has completed the pass can run to its end, and
\* at its end every item has a result and isSyncing is false.
C12_PassAlwaysCompletes ==
    /\ \A p \in DOMAIN passes :
          /\ \A i \in DOMAIN passes[p].res :
                passes[p].res[i] \in {"inflight", "success", "failure"}
          /\ AllIn(passes[p]) => ENABLED FinishPass(p)
    /\ PassJustFinished =>
          /\ ~isSyncing
          /\ \A i \in DOMAIN lastOp.pass.res :
                lastOp.pass.res[i] \in {"success", "failure"}

\* a pass of three items has ended: one succeeded, two did not
C12_Witness ==
    /\ PassJustFinished
    /\ ~isSyncing
    /\ Cardinality(Succeeded(lastOp.pass)) = 1
    /\ Cardinality(Failed(lastOp.pass)) = 2

(* -------------- the store of store.ts with clearCounts ------------------ *)

\* clearCounts: set({counts: [], pendingUploads: []}); requests in flight go on
ClearCounts ==
    /\ counts' = <<>>
    /\ pendingUploads' = <<>>
    /\ lastOp' = Op("clearCounts", "caller")
    /\ UNCHANGED <<isSyncing, passes, nPasses, nextUploadId, nDirect>>
    /\ UNCHANGED <<appOnly, connOnly>>
    /\ UNCHANGED <<serverVars, viewVars, pageVars>>

NextQueue ==
    \/ Next
    \/ ClearCounts

SpecQueue == Init /\ [][NextQueue]_vars

\* the ids of the queue items that a step takes out of the queue
Leaving == Ids(pendingUploads) \ Ids(pendingUploads')

\* the item whose analyze request succeeded in the step, if the step is one
SucceededNow ==
    IF lastOp'.op = "complete" /\ lastOp'.arg = "ok"
    THEN {passes[p].snapshot[i].id :
             <<p, i>> \in {<<q, j>> \in (DOMAIN passes) \X (1..MaxUploads) :
                              /\ j \in DOMAIN passes[q].res
                              /\ passes[q].res[j] = "inflight"
                              /\ passes'[q].res[j] = "success"}}
    ELSE {}

C11_Step ==
    /\ lastOp'.op # "clearCounts" => Leaving \subseteq SucceededNow
    /\ (lastOp'.op = "complete" /\ lastOp'.arg # "ok") =>
          pendingUploads' = pendingUploads
    /\ lastOp'.op = "syncStarted" =>
          /\ Len(passes') = Len(passes) + 1
          /\ passes'[Len(passes')].snapshot = pendingUploads
          /\ \A i \in DOMAIN pendingUploads :
                passes'[Len(passes')].res[i] = "inflight"

C28_Step ==
    (lastOp.op = "clearCounts" /\ lastOp'.op = "complete") =>
        /\ counts' = <<>>
        /\ pendingUploads' = <<>>

\* C28 (as claimed): after clearCounts the record list and the queue stay
\* empty when the answers of analyze requests that were in flight arrive.
C28_ClearIsFinal == [][C28_Step]_vars

(* ------------- the store of store.ts with the DevTools button ----------- *)

\* DevTools.handleToggleOnline: store.setOnline(!store.isOnline)
HandleToggleOnline ==
    /\ isOnline' = ~isOnline
    /\ forcedOffline' = isOnline
    /\ IF ~isOnline
       THEN SyncCall(TRUE, "devtools")
       ELSE /\ UNCHANGED <<counts, pendingUploads, isSyncing, passes, nPasses>>
            /\ lastOp' = Op("setOffline", "devtools")
    /\ UNCHANGED <<nextUploadId, nDirect>>
    /\ UNCHANGED connOnly
    /\ UNCHANGED <<serverVars, viewVars, user, mutation, nImages, persisted>>

NextDev ==
    \/ Next
    \/ HandleToggleOnline

SpecDev == Init /\ [][NextDev]_vars

\* C16 (as claimed): from the moment the DevTools button forces the store
\* offline until the button is used again, isOnline stays false, whatever
\* browser events and setOnline calls arrive.
C16_ForcedOfflineHolds == forcedOffline => ~isOnline

(* ---------- useCountStore with the health-gated connection state --------- *)

\* what one analyze request of a useCountStore pass can come back with: the
\* Outcomes above, and a 2xx whose body is not JSON (response.json() rejects)
ConnOutcomes == Outcomes \union {"badjson"}

\* addCount(data.count) when the body carries no count: the list gets undefined
UndefinedRecord == [src |-> "undefined", pass |-> 0, upload |-> 0]

\* what GET /api/health can come back with: the fetch rejects, or a response
\* with a status (ok or not) and a body that is JSON or not
Unparsable == [json |-> FALSE, database |-> "undefined", error |-> "undefined"]

HealthBodies ==
    {Unparsable} \union
    [json : {TRUE}, database : {"connected", "disconnected"},
     error : {"undefined", "db-error"}]

HealthResponses ==
    {[kind |-> "neterr", ok |-> FALSE, body |-> Unparsable]} \union
    [kind : {"response"}, ok : BOOLEAN, body : HealthBodies]

\* the catch branch of the upload: retryCount + 1 on the current queue
incrementRetry(id) ==
    [j \in DOMAIN pendingUploads |->
        IF pendingUploads[j].id = id
        THEN [pendingUploads[j] EXCEPT !.retryCount = @ + 1]
        ELSE pendingUploads[j]]

\* the guard of useCountStore's syncPendingUploads, read on connection conn
ConnSyncGuard(conn) ==
    /\ conn.isOnline
    /\ conn.isDatabaseConnected
    /\ Len(pendingUploads) # 0
    /\ ~isSyncing

\* useCountStore's syncPendingUploads, called when the connection is conn
ConnSyncCall(conn, who) ==
    IF ConnSyncGuard(conn)
    THEN /\ SyncStart
         /\ lastOp' = Op("syncStarted", who)
    ELSE /\ UNCHANGED <<counts, pendingUploads, isSyncing, passes, nPasses>>
         /\ lastOp' = Op("syncReturned", who)

\* the connection a health response leaves behind: the try branch's set() for
\* a parsed body, the catch branch's set() for a rejected fetch or json()
connectionAfter(r) ==
    IF r.kind = "neterr" \/ ~r.body.json
    THEN [isOnline |-> FALSE, isDatabaseConnected |-> FALSE,
          lastError |-> "error-message"]
    ELSE [isOnline |-> r.ok,
          isDatabaseConnected |-> (r.body.database = "connected"),
          lastError |-> IF r.body.database = "connected" THEN "undefined"
                        ELSE r.body.error]

\* which failure of the health request r is: the fetch rejects, json() rejects,
\* or the response's status is not 2xx; "none" for a 2xx response with JSON
FailureMode(r) ==
    IF r.kind = "neterr" THEN "neterr"
    ELSE IF ~r.body.json THEN "body"
    ELSE IF ~r.ok THEN "status"
    ELSE "none"

\* useCountStore's queueForUpload: a toast when the database is disconnected,
\* then the same append as above
ConnQueueForUpload ==
    /\ nextUploadId <= MaxConnUploads
    /\ \E image \in Images :
          pendingUploads' = queueForUpload(image)
    /\ nextUploadId' = nextUploadId + 1
    /\ passes' = [p \in 1..Len(passes) |->
                     [passes[p] EXCEPT !.enqueued = @ \union {nextUploadId}]]
    /\ lastOp' = Op("queueForUpload", "caller")
    /\ UNCHANGED <<counts, isSyncing, nPasses, nDirect>>
    /\ UNCHANGED <<appOnly, connOnly>>
    /\ UNCHANGED <<serverVars, viewVars, pageVars>>

\* setOnline(true) up to its first await: fetch('/api/health') is sent
ConnSetOnlineTrue ==
    /\ nProbes < MaxProbes
    /\ nProbes' = nProbes + 1
    /\ probes' = probes + 1
    /\ lastOp' = Op("probeSent", "setOnline")
    /\ UNCHANGED <<counts, pendingUploads, isSyncing, passes, nPasses, nextUploadId,
                   nDirect, connection>>
    /\ UNCHANGED appOnly
    /\ UNCHANGED <<serverVars, viewVars, pageVars>>

\* setOnline(false): both flags are cleared, lastError is kept
ConnSetOnlineFalse ==
    /\ connection' = [connection EXCEPT !.isOnline = FALSE,
                                        !.isDatabaseConnected = FALSE]
    /\ lastOp' = Op("setOffline", "caller")
    /\ UNCHANGED <<counts, pendingUploads, isSyncing, passes, nPasses, nextUploadId,
                   nDirect, probes, nProbes>>
    /\ UNCHANGED appOnly
    /\ UNCHANGED <<serverVars, viewVars, pageVars>>

\* the health request of a setOnline(true) call completes with r: the store's
\* connection is set, and with both flags true and a non-empty queue
\* syncPendingUploads is called
ConnProbeCompletes(r) ==
    /\ probes > 0
    /\ probes' = probes - 1
    /\ connection' = connectionAfter(r)
    /\ IF connection'.isOnline /\ connection'.isDatabaseConnected
             /\ Len(pendingUploads) > 0
       THEN ConnSyncCall(connection', "probe")
       ELSE /\ UNCHANGED <<counts, pendingUploads, isSyncing, passes, nPasses>>
            /\ lastOp' = Op("probeDone", FailureMode(r))
    /\ UNCHANGED <<nextUploadId, nDirect, nProbes>>
    /\ UNCHANGED appOnly
    /\ UNCHANGED <<serverVars, viewVars, pageVars>>

\* a direct call of useCountStore's syncPendingUploads action
ConnSyncPendingUploads ==
    /\ ConnSyncCall(connection, "caller")
    /\ UNCHANGED <<nextUploadId, nDirect>>
    /\ UNCHANGED <<appOnly, connOnly>>
    /\ UNCHANGED <<serverVars, viewVars, pageVars>>

\* the analyze request of item i of the running pass p completes with outcome
\* o; the rest of the mapped async function runs: addCount(data.count) and
\* removePendingUpload(upload.id) when nothing threw, retryCount + 1 otherwise
ConnComplete(p, i, o) ==
    /\ p \in 1..Len(passes)
    /\ i \in DOMAIN passes[p].res
    /\ passes[p].res[i] = "inflight"
    /\ LET upload == passes[p].snapshot[i] IN
       CASE o = "ok" ->
              /\ counts' = addCount(RecordOf(passes[p].n, upload))
              /\ pendingUploads' = removePendingUpload(upload.id)
              /\ passes' = [passes EXCEPT ![p].res[i] = "success"]
         [] o = "nocount" ->
              /\ counts' = addCount(UndefinedRecord)
              /\ pendingUploads' = removePendingUpload(upload.id)
              /\ passes' = [passes EXCEPT ![p].res[i] = "successUndefined"]
         [] OTHER ->
              /\ counts' = counts
              /\ pendingUploads' = incrementRetry(upload.id)
              /\ passes' = [passes EXCEPT ![p].res[i] = "failure"]
    /\ lastOp' = [op |-> "complete", arg |-> o,
                  pass |-> [NoPass EXCEPT !.n = passes[p].snapshot[i].id]]
    /\ UNCHANGED <<isSyncing, nPasses, nextUploadId, nDirect>>
    /\ UNCHANGED <<appOnly, connOnly>>
    /\ UNCHANGED <<serverVars, viewVars, pageVars>>

\* Promise.all resolved: the tally is computed (r.count.count throws a
\* TypeError for a success whose count is undefined) and the finally block
\* runs set({isSyncing: false})
ConnFinishPass(p) ==
    /\ p \in 1..Len(passes)
    /\ \A i \in DOMAIN passes[p].res : passes[p].res[i] # "inflight"
    /\ passes' = [q \in 1..(Len(passes) - 1) |-> IF q < p THEN passes[q] ELSE passes[q + 1]]
    /\ isSyncing' = FALSE
    /\ lastOp' = [op |-> "finishPass",
                  arg |-> IF \E i \in DOMAIN passes[p].res :
                                passes[p].res[i] = "successUndefined"
                          THEN "threw" ELSE "returned",
                  pass |-> passes[p]]
    /\ UNCHANGED <<counts, pendingUploads, nPasses, nextUploadId, nDirect>>
    /\ UNCHANGED <<appOnly, connOnly>>
    /\ UNCHANGED <<serverVars, viewVars, pageVars>>

NextConn ==
    \/ ConnQueueForUpload
    \/ ConnSetOnlineTrue
    \/ ConnSetOnlineFalse
    \/ \E r \in HealthResponses : ConnProbeCompletes(r)
    \/ ConnSyncPendingUploads
    \/ \E p \in 1..MaxPasses, i \in 1..MaxConnUploads, o \in ConnOutcomes : ConnComplete(p, i, o)
    \/ \E p \in 1..MaxPasses : ConnFinishPass(p)

SpecConn == Init /\ [][NextConn]_vars

(* ---------------- claims about the health-gated store ------------------- *)

\* C6 (as claimed): whatever the health response carries, the store never
\* shows isDatabaseConnected true while isOnline is false.
C6_ConnectionInvariant ==
    ~(connection.isDatabaseConnected /\ ~connection.isOnline)

\* C18 (as claimed): after a health request that failed by a network error, a
\* non-2xx status or an unparsable body, the connection is disconnected
\* (isOnline and isDatabaseConnected both false) and lastError is set.
C18_FailureDisconnects ==
    (lastOp.op = "probeDone" /\ lastOp.arg \in {"neterr", "body", "status"}) =>
        /\ ~connection.isOnline
        /\ ~connection.isDatabaseConnected
        /\ connection.lastError # "undefined"

C10_FailureKinds == {"neterr", "http5xx", "nocount"}

C10_Step ==
    (lastOp'.op = "complete" /\ lastOp'.arg \in C10_FailureKinds) =>
        /\ counts' = counts
        /\ \E j \in DOMAIN pendingUploads, k \in DOMAIN pendingUploads' :
              /\ pendingUploads[j].id = lastOp'.pass.n
              /\ pendingUploads'[k].id = lastOp'.pass.n
              /\ pendingUploads'[k].retryCount = pendingUploads[j].retryCount + 1

\* C10 (as claimed): a network error, a 5xx response and a 2xx response that
\* carries no count record each leave the item queued with its retryCount
\* incremented, and none of them adds a record to the record list.
C10_FailuresTreatedAlike == [][C10_Step]_vars


(* --------------------- server: POST /api/analyze ------------------------ *)

ServerStep == Op("server", "step")

ServerFrame == UNCHANGED <<storeVars, viewVars, pageVars>>

\* the requests of userId whose aggregate queries are being answered
Reading(userId) ==
    {q \in DOMAIN requests : requests[q].pc = "stats" /\ requests[q].user = userId}

\* The five aggregate queries of a check are sent together and answered in any
\* order. A query answered before a write to the user's rows sees the rows
\* before it: `early` names, for each reading request, the still unanswered
\* queries that are answered just before the write that turns the table into
\* newRows (only of the queries whose answer the write changes: the others
\* give the same answer after it).
EarlyChoices(userId, newRows) ==
    [Reading(userId) ->
        SUBSET {n \in StatNames :
                   StatValueIn(newRows, n, userId) # StatValueIn(dbCounts, n, userId)}]

AnswerEarly(reqs, userId, early) ==
    [q \in DOMAIN reqs |->
        IF q \in Reading(userId)
        THEN [reqs[q] EXCEPT !.stats =
                 [n \in StatNames |->
                     IF n \in early[q] /\ reqs[q].stats[n] = Unread
                     THEN StatValue(n, userId) ELSE reqs[q].stats[n]]]
        ELSE reqs[q]]

\* the checks of userId that have begun see the user's rows change
Disturb(reqs, userId) ==
    [q \in DOMAIN reqs |->
        IF reqs[q].user = userId /\ reqs[q].pc \in {"stats", "lists", "loop"}
        THEN [reqs[q] EXCEPT !.disturbed = TRUE]
        ELSE reqs[q]]

\* the positions of allAchievements, from position `from` on, that the loop
\* grants: not in achievedIds, and earned by stats
ToGrant(stats, achieved, from) ==
    {i \in DOMAIN dbAchievements :
        /\ i >= from
        /\ ~achievedIdsHas(achieved, dbAchievements[i].id)
        /\ Earned(stats, dbAchievements[i])}

\* the loop runs on without a database call until its next insert; when
\* nothing is left to grant, checkAchievements returns newAchievements and the
\* route answers res.json({count, newAchievements})
Resume(req) ==
    IF ToGrant(req.stats, req.achieved, req.next) = {}
    THEN [req EXCEPT !.pc = "done",
                     !.sequential = req.afterSettled /\ ~req.disturbed]
    ELSE [req EXCEPT !.pc = "loop"]

SettledAfter(req) ==
    IF req.pc = "done" /\ ~req.disturbed
    THEN [settled EXCEPT ![req.user] = TRUE]
    ELSE settled

\* POST /api/analyze of an authenticated session whose image the vision model
\* answered with a valid result: storage.addCount inserts the row, with
\* timestamp new Date() (the clock may have passed midnight since the last
\* insert)
Analyze(userId, count, breed, day) ==
    /\ Len(requests) < MaxRequests
    /\ day >= today
    /\ today' = day
    /\ LET newRows == dbCounts \union
               {[id |-> Len(requests) + 1, userId |-> userId, count |-> count,
                 breed |-> breed, day |-> day]}
       IN \E early \in EarlyChoices(userId, newRows) :
          /\ dbCounts' = newRows
          /\ requests' = Append(Disturb(AnswerEarly(requests, userId, early), userId),
                 [user |-> userId, pc |-> "stored",
                  stats |-> [n \in StatNames |-> Unread],
                  achieved |-> {}, next |-> 1, newAchievements |-> <<>>,
                  afterSettled |-> FALSE, disturbed |-> FALSE,
                  sequential |-> FALSE])
    /\ settled' = [settled EXCEPT ![userId] = FALSE]
    /\ lastOp' = ServerStep
    /\ UNCHANGED <<dbUserAchievements, dbAchievements>>
    /\ ServerFrame

\* the route resumes after addCount and calls checkAchievements(userId): the
\* five aggregate queries are sent
BeginCheck(r) ==
    /\ r \in DOMAIN requests
    /\ requests[r].pc = "stored"
    /\ requests' = [requests EXCEPT ![r].pc = "stats",
                                    ![r].afterSettled = settled[requests[r].user]]
    /\ lastOp' = ServerStep
    /\ UNCHANGED <<dbCounts, dbUserAchievements, dbAchievements, today, settled>>
    /\ ServerFrame

\* the aggregate queries still unanswered are answered: the first Promise.all
\* resolves and the stats object is built
ReadStats(r) ==
    /\ r \in DOMAIN requests
    /\ requests[r].pc = "stats"
    /\ requests' = [requests EXCEPT
           ![r].stats = [n \in StatNames |->
                            IF requests[r].stats[n] = Unread
                            THEN StatValue(n, requests[r].user)
                            ELSE requests[r].stats[n]],
           ![r].pc = "lists"]
    /\ lastOp' = ServerStep
    /\ UNCHANGED <<dbCounts, dbUserAchievements, dbAchievements, today, settled>>
    /\ ServerFrame

\* the second Promise.all: all achievements and the user's user_achievements;
\* achievedIds is built and the loop starts
ReadLists(r) ==
    /\ r \in DOMAIN requests
    /\ requests[r].pc = "lists"
    /\ LET u == requests[r].user
           req == Resume([requests[r] EXCEPT !.achieved =
                     {i \in DOMAIN dbAchievements : dbUserAchievements[<<u, i>>] > 0}])
       IN /\ requests' = [requests EXCEPT ![r] = req]
          /\ settled' = SettledAfter(req)
    /\ lastOp' = ServerStep
    /\ UNCHANGED <<dbCounts, dbUserAchievements, dbAchievements, today>>
    /\ ServerFrame

\* the loop reaches its next earned achievement: the insert into
\* user_achievements takes effect and the achievement is pushed
Grant(r) ==
    /\ r \in DOMAIN requests
    /\ requests[r].pc = "loop"
    /\ LET u == requests[r].user
           todo == ToGrant(requests[r].stats, requests[r].achieved, requests[r].next)
           i == CHOOSE i \in todo : \A j \in todo : i <= j
           req == Resume([requests[r] EXCEPT
                     !.next = i + 1,
                     !.newAchievements = Append(@, dbAchievements[i].id)])
       IN /\ dbUserAchievements' =
                 [dbUserAchievements EXCEPT ![<<u, dbAchievements[i].id>>] = @ + 1]
          /\ requests' = [requests EXCEPT ![r] = req]
          /\ settled' = SettledAfter(req)
    /\ lastOp' = ServerStep
    /\ UNCHANGED <<dbCounts, dbAchievements, today>>
    /\ ServerFrame

NextServer ==
    \/ \E u \in Users, c \in AnalyzedCounts, b \in Breeds, day \in Days :
          Analyze(u, c, b, day)
    \/ \E r \in 1..MaxRequests : BeginCheck(r)
    \/ \E r \in 1..MaxRequests : ReadStats(r)
    \/ \E r \in 1..MaxRequests : ReadLists(r)
    \/ \E r \in 1..MaxRequests : Grant(r)

SpecServer == Init /\ [][NextServer]_vars

\* C4 (as claimed): user_achievements never holds two grant rows of one
\* achievement for one user, however the analyze requests of that user
\* interleave.
C4_NoDoubleGrant ==
    \A g \in DOMAIN dbUserAchievements : dbUserAchievements[g] <= 1

\* C5: a check that begins after another check of the same user has returned,
\* with the user's count rows unchanged from the start of the first to the end
\* of the second, inserts no user_achievements row and returns an empty list.
C5_SecondCheckGrantsNothing ==
    \A r \in DOMAIN requests :
        (requests[r].pc = "done" /\ requests[r].sequential) =>
            requests[r].newAchievements = <<>>

\* a second check in sequence has returned, for a user the first check granted
\* an achievement to
C5_Witness ==
    \E r \in DOMAIN requests :
        /\ requests[r].pc = "done"
        /\ requests[r].sequential
        /\ requests[r].achieved # {}
        /\ \E q \in DOMAIN requests :
              /\ q # r
              /\ requests[q].user = requests[r].user
              /\ requests[q].pc = "done"
              /\ requests[q].newAchievements # <<>>

\* the requests whose response res.json({count, newAchievements}) was sent
Answered == {r \in DOMAIN requests : requests[r].pc = "done"}

\* C21 (as claimed): the newAchievements of a response are exactly the
\* achievements that request granted: each meets its requirement on the
\* user's counts, none was earned by the user before (so none is reported new
\* by two responses to one user), and every achievement the check's
\* statistics earn has a grant when the response is sent.
C21_NewAchievementsExact ==
    \A r \in Answered :
        LET u == requests[r].user
            new == Range(requests[r].newAchievements)
        IN /\ \A i \in new :
                 StatValue(StatOfType(dbAchievements[i].type), u)
                     >= dbAchievements[i].requirement
           /\ \A q \in Answered \ {r} :
                 requests[q].user = u =>
                     new \cap Range(requests[q].newAchievements) = {}
           /\ \A i \in DOMAIN dbAchievements :
                 Earned(requests[r].stats, dbAchievements[i]) =>
                     dbUserAchievements[<<u, dbAchievements[i].id>>] > 0

(* ---------------------- server: DELETE /api/counts ---------------------- *)

\* the counts tables of at most MaxRows rows (serial ids), each row of a user
Tables ==
    {{[id |-> i, userId |-> owner[i], count |-> 3, breed |-> "Leghorn", day |-> 1] :
         i \in {j \in 1..MaxRows : owner[j] # 0}} :
     owner \in [1..MaxRows -> Users \union {0}]}

DeleteInit ==
    /\ StoreInit
    /\ ViewInit
    /\ PageInit
    /\ dbCounts \in Tables
    /\ dbUserAchievements = [g \in Users \X DOMAIN SeededAchievements |-> 0]
    /\ dbAchievements = SeededAchievements
    /\ requests = <<>>
    /\ today = 1
    /\ settled = [u \in Users |-> FALSE]

\* a DELETE /api/counts request of `session` (0: no session) and its answer
DeleteOp(session, isArray, countIds, status, before) ==
    [op |-> "delete", arg |-> session, pass |-> NoPass, isArray |-> isArray,
     countIds |-> countIds, status |-> status, before |-> before]

\* DELETE /api/counts: requireAuth, the Array.isArray test, storage.deleteCounts
DeleteCountsRoute(session, isArray, countIds) ==
    /\ IF session = 0
       THEN /\ lastOp' = DeleteOp(session, isArray, countIds, 401, dbCounts)
            /\ UNCHANGED dbCounts
       ELSE IF ~isArray
       THEN /\ lastOp' = DeleteOp(session, isArray, countIds, 400, dbCounts)
            /\ UNCHANGED dbCounts
       ELSE /\ dbCounts' = deleteCounts(session, countIds)
            /\ lastOp' = DeleteOp(session, isArray, countIds, 200, dbCounts)
    /\ UNCHANGED <<dbUserAchievements, dbAchievements, requests, today, settled>>
    /\ ServerFrame

NextDelete ==
    \E session \in Users \union {0}, isArray \in BOOLEAN,
       countIds \in (SUBSET (1..MaxRows)) \ {{}} :
          DeleteCountsRoute(session, isArray, countIds)

SpecDelete == DeleteInit /\ [][NextDelete]_vars

\* C9: a DELETE /api/counts of authenticated user A with id array I answers
\* 200 and removes exactly the rows whose id is in I and whose userId is A:
\* every row of another user remains, whether or not its id is in I.
C9_DeleteScopedToCaller ==
    (lastOp.op = "delete" /\ lastOp.arg # 0 /\ lastOp.isArray) =>
        /\ lastOp.status = 200
        /\ dbCounts \subseteq lastOp.before
        /\ \A row \in lastOp.before :
              row \notin dbCounts <=>
                  (row.id \in lastOp.countIds /\ row.userId = lastOp.arg)

\* a delete answered 200 removed a row of the caller and met, among the ids it
\* named, a row of another user, which is still there
C9_Witness ==
    /\ lastOp.op = "delete"
    /\ lastOp.status = 200
    /\ lastOp.before # dbCounts
    /\ \E row \in dbCounts :
          row.id \in lastOp.countIds /\ row.userId # lastOp.arg

(* ------------------- client: the CountHistory list ---------------------- *)

\* a record without a timestamp (null or undefined)
Null == -1

ViewIds == {1, 2, 3}
Timestamps == {Null, 1, 2}

\* the lists of at most n records that come from `src`
ListsOf(n, src) ==
    UNION {[1..k -> [id : ViewIds, timestamp : Timestamps, src : {src}]] : k \in 0..n}

\* any local list (the store's counts) and any GET /api/counts result
InitView ==
    /\ counts \in ListsOf(MaxLocal, "local")
    /\ serverCounts \in ListsOf(MaxServer, "server")
    /\ allCounts = <<>>
    /\ QueueInit
    /\ ServerInit
    /\ PageInit

\* [...(localCounts || []), ...(serverCounts || [])] with the server copies
\* first
EntriesServerFirst(localCounts, server) == server \o localCounts

\* [...(localCounts || []), ...(serverCounts || [])]
Entries(localCounts, server) == localCounts \o server

\* Map.prototype.set(c.id, c): a key already present keeps its position and
\* takes the new value, a new key goes last
MapSet(map, c) ==
    IF \E i \in DOMAIN map : map[i].id = c.id
    THEN [i \in DOMAIN map |-> IF map[i].id = c.id THEN c ELSE map[i]]
    ELSE Append(map, c)

\* Array.from(new Map(entries.map(count => [count.id, count])).values())
RECURSIVE NewMap(_)
NewMap(entries) ==
    IF entries = <<>> THEN <<>>
    ELSE MapSet(NewMap(SubSeq(entries, 1, Len(entries) - 1)), entries[Len(entries)])

\* a.timestamp ? new Date(a.timestamp).getTime() : 0
TimeOf(c) == IF c.timestamp = Null THEN 0 ELSE c.timestamp

\* a comparator that puts the oldest first
CompareAscending(a, b) == TimeOf(a) - TimeOf(b)

\* the comparator (a, b) => timeB - timeA
Compare(a, b) == TimeOf(b) - TimeOf(a)

\* Array.prototype.sort with Compare: stable, so c goes behind every element
\* that does not have to come after it
InsertSorted(sorted, c) ==
    LET k == Cardinality({i \in DOMAIN sorted : Compare(sorted[i], c) <= 0})
    IN SubSeq(sorted, 1, k) \o <<c>> \o SubSeq(sorted, k + 1, Len(sorted))

RECURSIVE Sort(_)
Sort(list) ==
    IF list = <<>> THEN <<>>
    ELSE InsertSorted(Sort(SubSeq(list, 1, Len(list) - 1)), list[Len(list)])

\* the component renders: allCounts is computed from the store's counts and
\* the counts prop
Render ==
    /\ allCounts' = Sort(NewMap(Entries(counts, serverCounts)))
    /\ lastOp' = Op("render", "CountHistory")
    /\ UNCHANGED <<storeVars, serverVars, serverCounts, pageVars>>

NextView == Render

SpecView == InitView /\ [][NextView]_vars

HasTimestamp(c) == c.timestamp # Null

\* C7: the merged view holds exactly one record per id of the two lists, and
\* for an id that is in both lists the record shown is the server's copy.
C7_Dedup ==
    lastOp.op = "render" =>
        LET both == Range(counts) \union Range(serverCounts) IN
        /\ \A i \in DOMAIN allCounts : allCounts[i] \in both
        /\ \A c \in both :
              Cardinality({i \in DOMAIN allCounts : allCounts[i].id = c.id}) = 1
        /\ \A i \in DOMAIN allCounts :
              ((\E c \in Range(counts) : c.id = allCounts[i].id)
                  /\ (\E c \in Range(serverCounts) : c.id = allCounts[i].id))
              => allCounts[i] \in Range(serverCounts)

\* rendered from lists that share an id, with copies that differ
C7_Witness ==
    /\ lastOp.op = "render"
    /\ \E c \in Range(counts), d \in Range(serverCounts) :
          c.id = d.id /\ c.timestamp # d.timestamp
    /\ Len(allCounts) < Len(counts) + Len(serverCounts)

Connections ==
    [isOnline : BOOLEAN, isDatabaseConnected : BOOLEAN,
     lastError : {"undefined", "error-message"}]

\* the page is opened by a guest or by a logged-in user, on any connection
InitHome ==
    /\ counts = <<>>
    /\ pendingUploads = <<>>
    /\ isOnline = TRUE
    /\ isSyncing = FALSE
    /\ passes = <<>>
    /\ nPasses = 0
    /\ nextUploadId = 1
    /\ nDirect = 0
    /\ lastOp = Op("init", "init")
    /\ connection \in Connections
    /\ probes = 0
    /\ nProbes = 0
    /\ ServerInit
    /\ ViewInit
    /\ user \in {0} \union Users
    /\ mutation = NoMutation
    /\ nImages = 0
    /\ forcedOffline = FALSE
    /\ persisted = NoBlob

\* what the POST /api/analyze of the page can come back with
AnalyzeOutcomes == {"ok", "neterr", "http5xx"}

NoRecord == [id |-> 0, timestamp |-> Null, userId |-> 0, labels |-> {}]

\* responseData.count for image k: the row stored for a logged-in user, the
\* unstored record labelled guest-mode for a request without a session
ServerRecord(k, userId) ==
    [id |-> k, timestamp |-> 1, userId |-> userId,
     labels |-> IF userId = 0 THEN {"guest-mode"} ELSE {}]

\* crypto.randomUUID() for the guest record of image k
GuestId(k) == 100 + k

\* guest mode: {...responseData.count, id, userId: 0, labels: [..., "guest-mode"]}
GuestRecord(k) ==
    [id |-> GuestId(k), timestamp |-> 1, userId |-> 0, labels |-> {"guest-mode"}]

\* the guest fallback of the catch branch
GuestFallback(k) ==
    [id |-> GuestId(k), timestamp |-> 1, userId |-> 0,
     labels |-> {"guest-mode", "ai-failed"}]

Inflight == [state |-> "inflight", count |-> NoRecord]
Rejected == [state |-> "rejected", count |-> NoRecord]
Result(count) == [state |-> "result", count |-> count]

HomeOp(name, arg, m) == [op |-> name, arg |-> arg, pass |-> NoPass, mutation |-> m]

\* an enqueue that puts the new item in front
enqueueFront(queue, id, image) ==
    <<[id |-> id, image |-> image, retryCount |-> 0]>> \o queue

\* queueForUpload(image) on the queue `queue`, crypto.randomUUID() giving id
enqueue(queue, id, image) ==
    Append(queue, [id |-> id, image |-> image, retryCount |-> 0])

\* images.map(...) in the offline branch: queueForUpload for each image in turn
RECURSIVE EnqueueAll(_, _, _)
EnqueueAll(queue, id, images) ==
    IF images = <<>> THEN queue
    ELSE EnqueueAll(enqueue(queue, id, Head(images)), id + 1, Tail(images))

\* the mapped async function's try branch is chosen by user and connection
Branch(u, conn) ==
    IF u = 0 THEN "guest"
    ELSE IF ~conn.isOnline \/ ~conn.isDatabaseConnected THEN "offline"
    ELSE "online"

\* onSuccess: data.forEach(result => { if (result.count) addCount(result.count) })
RECURSIVE AddAll(_, _)
AddAll(list, results) ==
    IF results = <<>> THEN list
    ELSE AddAll(<<Head(results).count>> \o list, Tail(results))

\* handleImageCapture(images): analyzeMutation.mutate runs the mapped function
\* of every image up to its first await. In the offline branch each image is
\* queued and its promise rejects, so Promise.all rejects and onError runs.
Capture(n) ==
    /\ mutation = NoMutation
    /\ nImages + n <= MaxImages
    /\ nImages' = nImages + n
    /\ LET images == [i \in 1..n |-> nImages + i]
           m == [images |-> images, res |-> [i \in 1..n |-> Inflight],
                 user |-> user, connection |-> connection]
       IN IF Branch(user, connection) = "offline"
          THEN /\ pendingUploads' = EnqueueAll(pendingUploads, nextUploadId, images)
               /\ nextUploadId' = nextUploadId + n
               /\ mutation' = NoMutation
               /\ lastOp' = HomeOp("capture", "error",
                                   [m EXCEPT !.res = [i \in 1..n |-> Rejected]])
          ELSE /\ mutation' = m
               /\ lastOp' = HomeOp("capture", "pending", m)
               /\ UNCHANGED <<pendingUploads, nextUploadId>>
    /\ UNCHANGED <<counts, isOnline, isSyncing, passes, nPasses, nDirect, connection,
                   probes, nProbes, user, forcedOffline, persisted>>
    /\ UNCHANGED <<serverVars, viewVars>>

\* the analyze request of image i of the running mutation completes with o.
\* A guest gets a record either way; a logged-in user's failure is rethrown,
\* Promise.all rejects and onError runs; the last result makes onSuccess run.
Response(i, o) ==
    /\ i \in DOMAIN mutation.res
    /\ mutation.res[i].state = "inflight"
    /\ LET k == mutation.images[i]
           r == IF mutation.user = 0
                THEN IF o = "ok" THEN Result(GuestRecord(k)) ELSE Result(GuestFallback(k))
                ELSE IF o = "ok" THEN Result(ServerRecord(k, mutation.user)) ELSE Rejected
           m == [mutation EXCEPT !.res[i] = r]
       IN IF r.state = "rejected"
          THEN /\ mutation' = NoMutation
               /\ lastOp' = HomeOp("response", "error", m)
               /\ UNCHANGED counts
          ELSE IF \A j \in DOMAIN m.res : m.res[j].state = "result"
          THEN /\ mutation' = NoMutation
               /\ counts' = AddAll(counts, m.res)
               /\ lastOp' = HomeOp("response", "success", m)
          ELSE /\ mutation' = m
               /\ lastOp' = HomeOp("response", "pending", m)
               /\ UNCHANGED counts
    /\ UNCHANGED <<pendingUploads, isOnline, isSyncing, passes, nPasses, nextUploadId,
                   nDirect, connection, probes, nProbes, user, nImages, forcedOffline,
                   persisted>>
    /\ UNCHANGED <<serverVars, viewVars>>

Login(u) ==
    /\ user = 0
    /\ user' = u
    /\ lastOp' = HomeOp("login", "user", NoMutation)
    /\ UNCHANGED <<storeVars, serverVars, viewVars, mutation, nImages, forcedOffline,
                   persisted>>

Logout ==
    /\ user # 0
    /\ user' = 0
    /\ lastOp' = HomeOp("logout", "user", NoMutation)
    /\ UNCHANGED <<storeVars, serverVars, viewVars, mutation, nImages, forcedOffline,
                   persisted>>

NextHome ==
    \/ \E n \in 1..MaxImages : Capture(n)
    \/ \E i \in 1..MaxImages, o \in AnalyzeOutcomes : Response(i, o)
    \/ \E u \in Users : Login(u)
    \/ Logout
    \/ ConnSetOnlineFalse
    \/ Render

SpecHome == InitHome /\ [][NextHome]_vars

\* C13 (as claimed): when the immediate analyze request of a logged-in user
\* fails, the image is in the pending-upload queue afterwards.
C13_FailedImageQueued ==
    (lastOp.op = "response" /\ lastOp.arg = "error" /\ lastOp.mutation.user # 0) =>
        \A i \in DOMAIN lastOp.mutation.res :
            lastOp.mutation.res[i].state = "rejected" =>
                \E j \in DOMAIN pendingUploads :
                    pendingUploads[j].image = lastOp.mutation.images[i]

C14_Step ==
    (lastOp'.op = "capture" /\ Branch(user, connection) = "offline") =>
        LET images == lastOp'.mutation.images
            old == Len(pendingUploads)
        IN /\ Len(pendingUploads') = old + Len(images)
           /\ SubSeq(pendingUploads', 1, old) = pendingUploads
           /\ \A i \in DOMAIN images :
                 /\ pendingUploads'[old + i].image = images[i]
                 /\ pendingUploads'[old + i].retryCount = 0
                 /\ pendingUploads'[old + i].id \notin Ids(pendingUploads)
                 /\ \A j \in DOMAIN images :
                       j # i => pendingUploads'[old + j].id # pendingUploads'[old + i].id
           /\ counts' = counts
           /\ mutation' = NoMutation
           /\ \A i \in DOMAIN images : lastOp'.mutation.res[i].state # "inflight"

\* C14: a capture of N images by a logged-in user whose connection is offline
\* or database-disconnected appends exactly N items to the queue, in capture
\* order, with fresh distinct ids and retryCount 0, leaves the record list as
\* it is and sends no analyze request.
C14_OfflineCaptureOnlyEnqueues == [][C14_Step]_vars

\* two images were captured offline on top of a queue that already held one
C14_Witness ==
    /\ lastOp.op = "capture"
    /\ lastOp.arg = "error"
    /\ lastOp.mutation.user # 0
    /\ Len(lastOp.mutation.images) = 2
    /\ Len(pendingUploads) = 3
    /\ counts = <<>>

\* no request of a guest's capture made offline is in flight
C15_NoRequest ==
    (mutation.user = 0 /\ ~mutation.connection.isOnline) =>
        \A i \in DOMAIN mutation.res : mutation.res[i].state # "inflight"

\* a guest's capture ends with a guest-mode record per image in the local store
C15_RecordCreated ==
    (lastOp.op = "response" /\ lastOp.arg = "success" /\ lastOp.mutation.user = 0) =>
        \A i \in DOMAIN lastOp.mutation.res :
            /\ lastOp.mutation.res[i].count \in Range(counts)
            /\ "guest-mode" \in lastOp.mutation.res[i].count.labels

\* no guest-mode record is in the merged list rendered for a logged-in user
C15_NoGuestRecordAfterLogin ==
    (lastOp.op = "render" /\ user # 0) =>
        \A i \in DOMAIN allCounts : "guest-mode" \notin allCounts[i].labels

\* C15 (as claimed): a guest's capture while offline sends no request and
\* ends with a guest-mode record in the local store, and no guest-mode record
\* is in the merged list rendered for a logged-in user.
C15_GuestRecordsStayLocal ==
    /\ C15_NoRequest
    /\ C15_RecordCreated
    /\ C15_NoGuestRecordAfterLogin

(* -------- useAppStore with the timed health check (setOnline) ----------- *)

\* the store when the page loads: isOnline is navigator.onLine
InitTimed ==
    /\ counts = <<>>
    /\ pendingUploads = <<>>
    /\ isOnline \in BOOLEAN
    /\ isSyncing = FALSE
    /\ passes = <<>>
    /\ nPasses = 0
    /\ nextUploadId = 1
    /\ nDirect = 0
    /\ lastOp = Op("init", "init")
    /\ connection = InitialConnection
    /\ probes = 0
    /\ nProbes = 0
    /\ ServerInit
    /\ ViewInit
    /\ PageInit

\* how the fetch of /api/health settles: a response (ok or not), a rejection
\* by the network, or the rejection that controller.abort() causes when the
\* timer of HEALTH_CHECK_TIMEOUT fires first
HealthCheckOutcomes == {"ok", "notok", "neterr", "timeout"}

\* a health check that takes the abort for a sign of life
onlineAfterAbortIgnored(r) == r \in {"ok", "timeout"}

\* the isOnline that the health check leaves: response.ok for a response,
\* false from the catch for a rejection
onlineAfter(r) == r = "ok"

\* what an analyze request of a pass comes back with: the Outcomes above, the
\* network error split by whether its message contains 'network'
TimedOutcomes == Outcomes \union {"neterrNamed"}

TimedQueueForUpload ==
    /\ nextUploadId <= MaxConnUploads
    /\ \E image \in Images :
          pendingUploads' = queueForUpload(image)
    /\ nextUploadId' = nextUploadId + 1
    /\ passes' = [p \in 1..Len(passes) |->
                     [passes[p] EXCEPT !.enqueued = @ \union {nextUploadId}]]
    /\ lastOp' = Op("queueForUpload", "caller")
    /\ UNCHANGED <<counts, isSyncing, nPasses, nDirect>>
    /\ UNCHANGED <<appOnly, connOnly>>
    /\ UNCHANGED <<serverVars, viewVars, pageVars>>

\* setOnline(true) up to its first await: the timer is set and the fetch of
\* /api/health is sent with the controller's signal
HealthCheckSent ==
    /\ nProbes < MaxProbes
    /\ nProbes' = nProbes + 1
    /\ probes' = probes + 1
    /\ lastOp' = Op("probeSent", "setOnline")
    /\ UNCHANGED <<counts, pendingUploads, isOnline, isSyncing, passes, nPasses,
                   nextUploadId, nDirect, connection>>
    /\ UNCHANGED <<serverVars, viewVars, pageVars>>

\* setOnline(false)
TimedSetOnlineFalse ==
    /\ isOnline' = FALSE
    /\ lastOp' = Op("setOffline", "caller")
    /\ UNCHANGED <<counts, pendingUploads, isSyncing, passes, nPasses, nextUploadId,
                   nDirect>>
    /\ UNCHANGED connOnly
    /\ UNCHANGED <<serverVars, viewVars, pageVars>>

\* the fetch of a health check settles with r: isOnline is set, and when it is
\* true syncPendingUploads is called
HealthCheckSettles(r) ==
    /\ probes > 0
    /\ probes' = probes - 1
    /\ isOnline' = onlineAfter(r)
    /\ IF onlineAfter(r)
       THEN /\ SyncCall(TRUE, r)
       ELSE /\ UNCHANGED <<counts, pendingUploads, isSyncing, passes, nPasses>>
            /\ lastOp' = Op("probe", r)
    /\ UNCHANGED <<nextUploadId, nDirect, nProbes, connection>>
    /\ UNCHANGED <<serverVars, viewVars, pageVars>>

\* the analyze request of item i of the running pass p completes with o: as in
\* store.ts, and the catch raises retryCount when the message names the network
TimedComplete(p, i, o) ==
    /\ p \in 1..Len(passes)
    /\ i \in DOMAIN passes[p].res
    /\ passes[p].res[i] = "inflight"
    /\ passes' = [passes EXCEPT ![p].res[i] = IF o = "ok" THEN "success" ELSE "failure"]
    /\ LET upload == passes[p].snapshot[i] IN
       CASE o = "ok" ->
              /\ counts' = addCount(RecordOf(passes[p].n, upload))
              /\ pendingUploads' = removePendingUpload(upload.id)
         [] o = "neterrNamed" ->
              /\ pendingUploads' = incrementRetry(upload.id)
              /\ UNCHANGED counts
         [] OTHER -> UNCHANGED <<counts, pendingUploads>>
    /\ lastOp' = Op("complete", o)
    /\ UNCHANGED <<isOnline, isSyncing, nPasses, nextUploadId, nDirect>>
    /\ UNCHANGED connOnly
    /\ UNCHANGED <<serverVars, viewVars, pageVars>>

NextTimed ==
    \/ TimedQueueForUpload
    \/ HealthCheckSent
    \/ TimedSetOnlineFalse
    \/ \E r \in HealthCheckOutcomes : HealthCheckSettles(r)
    \/ \E p \in 1..MaxPasses, i \in 1..MaxConnUploads, o \in TimedOutcomes :
          TimedComplete(p, i, o)
    \/ \E p \in 1..MaxPasses : FinishPass(p)

\* a fetch that gets no answer is ended by the timer: setTimeout fires
SpecTimed ==
    /\ InitTimed
    /\ [][NextTimed]_vars
    /\ WF_vars(HealthCheckSettles("timeout"))

\* the step is a health check settling with r
Settled(r) ==
    /\ probes' = probes - 1
    /\ lastOp'.op \in {"probe", "syncStarted", "syncReturned"}
    /\ lastOp'.arg = r

C17_Step ==
    (Settled("timeout") \/ Settled("neterr")) =>
        /\ isOnline' = FALSE
        /\ probes' = probes - 1
        /\ UNCHANGED <<counts, pendingUploads, isSyncing, passes, nPasses>>

\* C17: a health check that gets no response is ended by its timer and then
\* handled as a network failure is: isOnline becomes false and no sync pass
\* starts; and no health check stays pending forever.
C17_ProbeTimesOut ==
    /\ [][C17_Step]_vars
    /\ (probes > 0) ~> (probes = 0)

\* the step settles a health check right after setOnline(false): every check
\* in flight was sent before that offline event
C27_Step ==
    (lastOp.op = "setOffline" /\ probes' = probes - 1) =>
        /\ isOnline' = FALSE
        /\ nPasses' = nPasses

\* C27 (as claimed): the response of a health check that was in flight when
\* an offline event arrived neither sets isOnline back to true nor starts a
\* sync pass.
C27_StaleProbeIgnored == [][C27_Step]_vars

\* a health check has timed out while the queue held an item and no pass ran:
\* a pass would have started had the check succeeded
C17_Witness ==
    /\ lastOp.op = "probe"
    /\ lastOp.arg = "timeout"
    /\ ~isOnline
    /\ Len(pendingUploads) > 0
    /\ ~isSyncing

(* --------- the store of store.ts with its persist middleware ------------ *)

\* the value persist hands to storage.setItem after a set(): the whole state
\* (no partialize is configured)
Blob ==
    [counts |-> counts, pendingUploads |-> pendingUploads,
     isOnline |-> isOnline, isSyncing |-> isSyncing]

\* the write of storage.setItem reaches IndexedDB: setItem is async and called
\* without await after each set(), so it lands some time after the store
\* changed; a write that fails is caught and logged inside setItem and never
\* lands
SaveLands ==
    /\ persisted # Blob
    /\ persisted' = Blob
    /\ UNCHANGED <<storeVars, lastOp, serverVars, viewVars, user, mutation, nImages,
                   forcedOffline>>

\* the page is reloaded: the module is evaluated again, the requests of the
\* old page are gone, and hydration puts the stored value into the new store
Reload ==
    /\ counts' = persisted.counts
    /\ pendingUploads' = persisted.pendingUploads
    /\ isOnline' = persisted.isOnline
    /\ isSyncing' = persisted.isSyncing
    /\ passes' = <<>>
    /\ lastOp' = Op("reload", "browser")
    /\ UNCHANGED <<nPasses, nextUploadId, nDirect>>
    /\ UNCHANGED connOnly
    /\ UNCHANGED <<serverVars, viewVars, pageVars>>

NextLife ==
    \/ QueueForUpload
    \/ \E status \in BOOLEAN : SetOnline(status)
    \/ \E p \in 1..MaxPasses, i \in 1..MaxUploads, o \in Outcomes : Complete(p, i, o)
    \/ \E p \in 1..MaxPasses : FinishPass(p)
    \/ SaveLands
    \/ Reload

SpecLife == Init /\ [][NextLife]_vars

\* C20 (as claimed): at every moment every queued image whose analyze request
\* has not succeeded is in the persisted queue, so that a reload at that moment
\* restores a queue that contains it.
C20_QueuePersisted ==
    \A i \in DOMAIN pendingUploads :
        \E j \in DOMAIN persisted.pendingUploads :
            persisted.pendingUploads[j].id = pendingUploads[i].id

(* ------------- the record operations of the store of store.ts ---------- *)

\* ids as JavaScript values: the number 5, the string "5", the number 6
RecordIds == {[type |-> "number", digits |-> 5], [type |-> "string", digits |-> 5],
              [type |-> "number", digits |-> 6]}

\* id.toString()
toString(id) == id.digits

\* the count records callers hand to the store
StoreRecords == [id : RecordIds, userId : {0} \union {1}, count : {3}]

\* keys that an updates object does not have
AbsentId == [type |-> "undefined", digits |-> 0]

AbsentNumber == -1

\* the Partial<Count> arguments of updateCount
Updates == [id : RecordIds \union {AbsentId}, userId : {0, 1, AbsentNumber},
            count : {7, AbsentNumber}]

\* {...count, ...updates}
Merge(count, updates) ==
    [id |-> IF updates.id = AbsentId THEN count.id ELSE updates.id,
     userId |-> IF updates.userId = AbsentNumber THEN count.userId ELSE updates.userId,
     count |-> IF updates.count = AbsentNumber THEN count.count ELSE updates.count]

\* updateCount: state.counts.map(count =>
\*   count.id.toString() === id.toString() ? {...count, ...updates} : count)
updateCount(id, updates) ==
    [i \in DOMAIN counts |->
        IF toString(counts[i].id) = toString(id)
        THEN Merge(counts[i], updates) ELSE counts[i]]

\* ids.includes(count.id): equality of JavaScript values, the number 5 and the
\* string "5" being different
includes(ids, id) == id \in ids

\* deleteCounts: state.counts.filter(count => !ids.includes(count.id))
storeDeleteCounts(ids) == SelectSeq(counts, LAMBDA count : ~includes(ids, count.id))

\* the lists of at most n records
ListsUpTo(n) == UNION {[1..k -> StoreRecords] : k \in 0..n}

\* the store with no record yet and a queue that is empty or holds an image
InitRecords ==
    /\ counts = <<>>
    /\ \/ pendingUploads = <<>> /\ nextUploadId = 1
       \/ /\ pendingUploads = <<[id |-> 1, image |-> "img", retryCount |-> 0]>>
          /\ nextUploadId = 2
    /\ isOnline = TRUE
    /\ isSyncing = FALSE
    /\ passes = <<>>
    /\ nPasses = 0
    /\ nDirect = 0
    /\ lastOp = Op("init", "init")
    /\ connection = InitialConnection
    /\ probes = 0
    /\ nProbes = 0
    /\ ServerInit
    /\ ViewInit
    /\ PageInit

RecordOp(name, ids) ==
    [op |-> name, arg |-> "caller", pass |-> NoPass, ids |-> ids]

RecordFrame ==
    /\ UNCHANGED <<pendingUploads, isSyncing, passes, nPasses, nextUploadId, nDirect>>
    /\ UNCHANGED <<appOnly, connOnly>>
    /\ UNCHANGED <<serverVars, viewVars, pageVars>>

\* addCount(count) of a caller
StoreAddCount(count) ==
    /\ Len(counts) < MaxRecords
    /\ counts' = addCount(count)
    /\ lastOp' = RecordOp("addCount", {})
    /\ RecordFrame

UpdateCount(id, updates) ==
    /\ counts' = updateCount(id, updates)
    /\ lastOp' = RecordOp("updateCount", {})
    /\ RecordFrame

DeleteCounts(ids) ==
    /\ counts' = storeDeleteCounts(ids)
    /\ lastOp' = RecordOp("deleteCounts", ids)
    /\ RecordFrame

\* importCounts(counts): set({counts})
ImportCounts(list) ==
    /\ counts' = list
    /\ lastOp' = RecordOp("importCounts", {})
    /\ RecordFrame

NextRecords ==
    \/ \E count \in StoreRecords : StoreAddCount(count)
    \/ \E id \in RecordIds, updates \in Updates : UpdateCount(id, updates)
    \/ \E ids \in SUBSET RecordIds : DeleteCounts(ids)
    \/ \E list \in ListsUpTo(MaxRecords) : ImportCounts(list)
    \/ ClearCounts

SpecRecords == InitRecords /\ [][NextRecords]_vars

C22_Step ==
    lastOp'.op = "updateCount" =>
        /\ Len(counts') = Len(counts)
        /\ \A i \in DOMAIN counts :
              /\ counts'[i].id = counts[i].id
              /\ counts'[i].userId = counts[i].userId

\* C22 (as claimed): updateCount(id, updates) leaves the id and the userId of
\* every record of the list as they were, whatever updates holds.
C22_IdentityImmutable == [][C22_Step]_vars

\* the ids that match under updateCount's comparison of id.toString()
MatchesTolerant(ids, id) == \E x \in ids : toString(x) = toString(id)

C23_Step ==
    lastOp'.op = "deleteCounts" =>
        /\ counts' = SelectSeq(counts,
                        LAMBDA count : ~MatchesTolerant(lastOp'.ids, count.id))
        /\ pendingUploads' = pendingUploads

\* C23 (as claimed): deleteCounts(ids) removes exactly the records whose id
\* matches one of ids under the comparison updateCount uses (id.toString()),
\* keeps the others in order and leaves the queue of pending uploads alone.
C23_DeleteTolerant == [][C23_Step]_vars

(* ------- server: the count log (analyze, GET and DELETE /api/counts) ---- *)

\* result.labels of the vision model, after the additional-breed, age and
\* health labels were pushed
ResultLabels == {<<"age:adults">>}

\* the requests handled so far that wrote to the database, in order; ids is
\* the id of the inserted row or the countIds of the delete
LogEvent(kind, userId, ids) == [kind |-> kind, user |-> userId, ids |-> ids]

\* the answer of the route, with the session's user
LogOp(name, userId, response) ==
    [op |-> name, arg |-> "request", pass |-> NoPass, user |-> userId,
     response |-> response]

\* the serial id of the next row of counts
NextCountId == Cardinality({k \in DOMAIN requests : requests[k].kind = "analyze"}) + 1

\* a guest request that stores its record like an authenticated one
countsAfterGuestStored(row) == dbCounts \union {row}

\* the counts table after a guest request: the else branch makes no
\* storage call
countsAfterGuest(row) == dbCounts

\* a query that forgets its where clause
getCountsOfAll(userId) == dbCounts

\* storage.getCounts: select from counts where user_id = userId
getCounts(userId) == RowsOf(dbCounts, userId)

\* POST /api/analyze with a session: storage.addCount inserts the row with the
\* session's userId, checkAchievements grants what the user's rows now earn,
\* and the route answers {count, newAchievements}
LogAnalyze(userId, count, breed) ==
    /\ Len(requests) < MaxLogOps
    /\ LET row == [id |-> NextCountId, userId |-> userId, count |-> count,
                   breed |-> breed, day |-> today]
           newRows == dbCounts \union {row}
           stats == [n \in StatNames |-> StatValueIn(newRows, n, userId)]
           achieved == {i \in DOMAIN dbAchievements :
                           dbUserAchievements[<<userId, i>>] > 0}
           todo == ToGrant(stats, achieved, 1)
       IN /\ dbCounts' = newRows
          /\ dbUserAchievements' =
                 [g \in DOMAIN dbUserAchievements |->
                     IF g[1] = userId /\ g[2] \in todo
                     THEN dbUserAchievements[g] + 1 ELSE dbUserAchievements[g]]
          /\ requests' = Append(requests, LogEvent("analyze", userId, {row.id}))
          /\ lastOp' = LogOp("analyze", userId, {row})
    /\ UNCHANGED <<dbAchievements, today, settled>>
    /\ ServerFrame

\* POST /api/analyze without a session: the record is built in memory with
\* userId 0 and the labels [...result.labels, "guest-mode"]
GuestAnalyze(count, breed, labels) ==
    /\ LET record == [id |-> 0, userId |-> 0, count |-> count, breed |-> breed,
                      day |-> today, labels |-> Append(labels, "guest-mode")]
           row == [id |-> NextCountId, userId |-> 0, count |-> count,
                   breed |-> breed, day |-> today]
       IN /\ dbCounts' = countsAfterGuest(row)
          /\ lastOp' = LogOp("guestAnalyze", 0, {record})
    /\ UNCHANGED <<dbUserAchievements, dbAchievements, requests, today, settled>>
    /\ ServerFrame

\* GET /api/counts: requireAuth answers 401 without a session, else the route
\* answers storage.getCounts of the session's user
GetCounts(userId) ==
    /\ lastOp' = IF userId = 0 THEN LogOp("getCounts401", 0, {})
                 ELSE LogOp("getCounts", userId, getCounts(userId))
    /\ UNCHANGED serverVars
    /\ ServerFrame

\* DELETE /api/counts with a session and an array of ids
LogDelete(userId, countIds) ==
    /\ Len(requests) < MaxLogOps
    /\ dbCounts' = deleteCounts(userId, countIds)
    /\ requests' = Append(requests, LogEvent("delete", userId, countIds))
    /\ lastOp' = LogOp("deleteCounts", userId, {})
    /\ UNCHANGED <<dbUserAchievements, dbAchievements, today, settled>>
    /\ ServerFrame

NextLog ==
    \/ \E u \in Users, c \in AnalyzedCounts, b \in Breeds : LogAnalyze(u, c, b)
    \/ \E c \in AnalyzedCounts, b \in Breeds, l \in ResultLabels : GuestAnalyze(c, b, l)
    \/ \E u \in Users \union {0} : GetCounts(u)
    \/ \E u \in Users, ids \in SUBSET (1..MaxDeleteIds) : LogDelete(u, ids)

SpecLog == Init /\ [][NextLog]_vars

C24_Step ==
    lastOp'.op = "guestAnalyze" =>
        /\ dbCounts' = dbCounts
        /\ dbUserAchievements' = dbUserAchievements
        /\ \A record \in lastOp'.response :
              /\ record.userId = 0
              /\ \E i \in DOMAIN record.labels : record.labels[i] = "guest-mode"
        /\ lastOp'.response # {}

OwnLive(userId) ==
    {id \in 1..MaxLogOps :
        \E k \in DOMAIN requests :
            /\ requests[k].kind = "analyze"
            /\ requests[k].user = userId
            /\ id \in requests[k].ids
            /\ ~\E j \in DOMAIN requests :
                  /\ j > k
                  /\ requests[j].kind = "delete"
                  /\ requests[j].user = userId
                  /\ id \in requests[j].ids}

\* the user whose analyze request inserted the row id
CreatorOf(id) ==
    LET k == CHOOSE k \in DOMAIN requests :
                 requests[k].kind = "analyze" /\ id \in requests[k].ids
    IN requests[k].user

\* C30: GET /api/counts of a user answers exactly the rows that user's own
\* analyze requests inserted and that user has not deleted since, whatever
\* other users and guests requested; every row of counts carries the userId
\* of the session that inserted it.
C30_CountLogIsolated ==
    /\ lastOp.op = "getCounts" =>
          /\ {row.id : row \in lastOp.response} = OwnLive(lastOp.user)
          /\ \A row \in lastOp.response : row.userId = lastOp.user
    /\ \A row \in dbCounts : row.userId = CreatorOf(row.id)

\* a user reads the log after deleting one of two own rows, while another user
\* holds a row and has named the reader's row in a delete request
C30_Witness ==
    /\ lastOp.op = "getCounts"
    /\ Cardinality(lastOp.response) = 1
    /\ \E row \in dbCounts : row.userId # lastOp.user
    /\ \E k \in DOMAIN requests :
          /\ requests[k].kind = "delete"
          /\ requests[k].user # lastOp.user
          /\ \E row \in lastOp.response : row.id \in requests[k].ids

(* ---------------- server: initializeAchievements ------------------------ *)

\* a database that was just created: no achievements yet
InitSeed ==
    /\ StoreInit
    /\ ViewInit
    /\ PageInit
    /\ dbCounts = {}
    /\ dbUserAchievements = [g \in Users \X DOMAIN SeededAchievements |-> 0]
    /\ dbAchievements = <<>>
    /\ requests = <<>>
    /\ today = 1
    /\ settled = [u \in Users |-> FALSE]

\* db.insert(achievements).values(INITIAL_ACHIEVEMENTS) on the table `rows`:
\* the serial ids go on from the table's last
insertSeeds(rows) ==
    rows \o [i \in DOMAIN INITIAL_ACHIEVEMENTS |->
                [id |-> Len(rows) + i,
                 name |-> INITIAL_ACHIEVEMENTS[i].name,
                 requirement |-> INITIAL_ACHIEVEMENTS[i].requirement,
                 type |-> INITIAL_ACHIEVEMENTS[i].type]]

\* a server process starts: registerRoutes calls initializeAchievements
\* without await, and the call sends its select
InitializeAchievements ==
    /\ Len(requests) < MaxCalls
    /\ requests' = Append(requests, [pc |-> "select"])
    /\ lastOp' = Op("initializeAchievements", "registerRoutes")
    /\ UNCHANGED <<dbCounts, dbUserAchievements, dbAchievements, today, settled>>
    /\ ServerFrame

\* the select of call r is answered: existingAchievements.length === 0 decides
\* whether the call goes on to insert
SelectAnswered(r) ==
    /\ r \in DOMAIN requests
    /\ requests[r].pc = "select"
    /\ requests' = [requests EXCEPT ![r].pc =
                       IF Len(dbAchievements) = 0 THEN "insert" ELSE "done"]
    /\ lastOp' = Op("select", "initializeAchievements")
    /\ UNCHANGED <<dbCounts, dbUserAchievements, dbAchievements, today, settled>>
    /\ ServerFrame

\* the insert of call r takes effect and the call returns
InsertSeeds(r) ==
    /\ r \in DOMAIN requests
    /\ requests[r].pc = "insert"
    /\ dbAchievements' = insertSeeds(dbAchievements)
    /\ requests' = [requests EXCEPT ![r].pc = "done"]
    /\ lastOp' = Op("insert", "initializeAchievements")
    /\ UNCHANGED <<dbCounts, dbUserAchievements, today, settled>>
    /\ ServerFrame

NextSeed ==
    \/ InitializeAchievements
    \/ \E r \in 1..MaxCalls : SelectAnswered(r)
    \/ \E r \in 1..MaxCalls : InsertSeeds(r)

SpecSeed == InitSeed /\ [][NextSeed]_vars

\* C25 (as claimed): after any number of initializeAchievements calls the
\* achievements table holds each seed achievement exactly once: never twice,
\* and once as soon as a call has returned.
C25_SeededOnce ==
    /\ \A i, j \in DOMAIN dbAchievements :
          dbAchievements[i].name = dbAchievements[j].name => i = j
    /\ (\E r \in DOMAIN requests : requests[r].pc = "done") =>
          \A k \in DOMAIN INITIAL_ACHIEVEMENTS :
              \E i \in DOMAIN dbAchievements :
                  dbAchievements[i].name = INITIAL_ACHIEVEMENTS[k].name

(* ------------- the store of store.ts with requests that complete -------- *)

\* every analyze request is answered, and a pass whose requests are all
\* answered runs to its finally block
SpecFair ==
    /\ Init
    /\ [][Next]_vars
    /\ WF_vars(\E p \in 1..MaxPasses, i \in 1..MaxUploads, o \in Outcomes :
                   Complete(p, i, o))
    /\ WF_vars(\E p \in 1..MaxPasses : FinishPass(p))

\* the item id is in a request of a running pass that is not answered yet
InPass(id) ==
    \E p \in DOMAIN passes, i \in 1..MaxUploads :
        /\ i \in DOMAIN passes[p].res
        /\ passes[p].res[i] = "inflight"
        /\ passes[p].snapshot[i].id = id

\* the item id is queued with no request out for it, and the store is online
Waiting(id) == id \in Ids(pendingUploads) /\ ~InPass(id) /\ isOnline

\* C26 (as claimed): an item that waits in the queue while the store is
\* online is eventually submitted by a sync pass, unless the store goes
\* offline or the item leaves the queue first.
C26_EventuallySubmitted ==
    \A id \in 1..MaxUploads :
        Waiting(id) ~> (InPass(id) \/ ~isOnline \/ ~(id \in Ids(pendingUploads)))

(* ------ useCountStore with a persisted isSyncing, across page reloads ---- *)

\* what the installed persist middleware hands to storage.setItem: the state
\* itself, or the state wrapped as {state, version}; setItem reads counts,
\* pendingUploads, isOnline and isSyncing off that value, so with the wrapper
\* it stores four undefined fields and hydration restores nothing
Builds == {"state", "wrapped"}

\* the page is reloaded: the requests of the old page are gone, the store is
\* created with its initial state, and hydration merges what the stored value
\* holds into it
ReloadCountStore(build) ==
    /\ IF build = "state"
       THEN /\ counts' = persisted.counts
            /\ pendingUploads' = persisted.pendingUploads
            /\ isOnline' = persisted.isOnline
            /\ isSyncing' = persisted.isSyncing
       ELSE /\ counts' = <<>>
            /\ pendingUploads' = <<>>
            /\ isOnline' \in BOOLEAN
            /\ isSyncing' = FALSE
    /\ passes' = <<>>
    /\ lastOp' = Op("reload", build)
    /\ UNCHANGED <<nPasses, nextUploadId, nDirect>>
    /\ UNCHANGED connOnly
    /\ UNCHANGED <<serverVars, viewVars, pageVars>>

\* queueForUpload, setOnline and the completions are, line for line, those of
\* the stores modelled above
NextReload ==
    \/ TimedQueueForUpload
    \/ \E status \in BOOLEAN : SetOnline(status)
    \/ \E p \in 1..MaxPasses, i \in 1..MaxConnUploads, o \in ConnOutcomes :
          ConnComplete(p, i, o)
    \/ \E p \in 1..MaxPasses : ConnFinishPass(p)
    \/ SaveLands
    \/ \E build \in Builds : ReloadCountStore(build)

SpecReload == InitTimed /\ [][NextReload]_vars

====
